---------------------------- MODULE Spec2Model ----------------------------
(***************************************************************************)
(* Model of the STEM graduation-rate prediction service.                   *)
(*                                                                         *)
(*   src/API/main.py        the FastAPI process: module globals, startup,  *)
(*                          the request handlers /, /health, /countries,   *)
(*                          /stem-fields, /predict                         *)
(*   src/API/prediction.py  STEMPredictionService and its global instance  *)
(*                                                                         *)
(* Units.  Python floats are modelled as exact rationals.  A request's     *)
(* female_enrollment_percent and gender_gap_index, and the scaler's mean_  *)
(* and scale_, are integers counting hundredths (45.5 is 4550, 0.7 is 70). *)
(* A regressor output is a rational [nan, num, den] in percent; a rounded  *)
(* rate is an integer counting hundredths of a percent.                    *)
(***************************************************************************)
EXTENDS Integers, Sequences, FiniteSets, TLC

VARIABLES
    modelFile,          \* what is on disk at model/best_model.pkl
    apiPhase,           \* main.py: "init", "ready" (startup done), "failed"
    model,              \* main.py global
    scaler,             \* main.py global
    country_encoder,    \* main.py global
    field_encoder,      \* main.py global
    COUNTRIES,          \* main.py global list
    STEM_FIELDS,        \* main.py global list
    svcPhase,           \* prediction.py: "none", "constructed", "failed"
    prediction_service, \* prediction.py global instance (its attributes)
    response,           \* the response in flight to the caller (none: op = "none")
    clients             \* concurrent callers of /predict: what each sent and got

vars == <<modelFile, apiPhase, model, scaler, country_encoder, field_encoder,
          COUNTRIES, STEM_FIELDS, svcPhase, prediction_service, response, clients>>

apiGlobals == <<model, scaler, country_encoder, field_encoder, COUNTRIES, STEM_FIELDS>>

-----------------------------------------------------------------------------
(* Strings: Python compares str by code point, so each label carries its   *)
(* code points.                                                            *)

CodePoints(l) ==
    CASE l = "Australia" -> <<65, 117, 115, 116, 114, 97, 108, 105, 97>>
      [] l = "Brazil" -> <<66, 114, 97, 122, 105, 108>>
      [] l = "Canada" -> <<67, 97, 110, 97, 100, 97>>
      [] l = "China" -> <<67, 104, 105, 110, 97>>
      [] l = "France" -> <<70, 114, 97, 110, 99, 101>>
      [] l = "Germany" -> <<71, 101, 114, 109, 97, 110, 121>>
      [] l = "India" -> <<73, 110, 100, 105, 97>>
      [] l = "Japan" -> <<74, 97, 112, 97, 110>>
      [] l = "South Korea" -> <<83, 111, 117, 116, 104, 32, 75, 111, 114, 101, 97>>
      [] l = "United Kingdom" -> <<85, 110, 105, 116, 101, 100, 32, 75, 105, 110, 103, 100, 111, 109>>
      [] l = "United States" -> <<85, 110, 105, 116, 101, 100, 32, 83, 116, 97, 116, 101, 115>>
      [] l = "USA" -> <<85, 83, 65>>
      [] l = "Biology" -> <<66, 105, 111, 108, 111, 103, 121>>
      [] l = "Computer Science" -> <<67, 111, 109, 112, 117, 116, 101, 114, 32, 83, 99, 105, 101, 110, 99, 101>>
      [] l = "Engineering" -> <<69, 110, 103, 105, 110, 101, 101, 114, 105, 110, 103>>
      [] l = "Mathematics" -> <<77, 97, 116, 104, 101, 109, 97, 116, 105, 99, 115>>
      [] l = "Physics" -> <<80, 104, 121, 115, 105, 99, 115>>

RECURSIVE SeqLess(_, _)
\* lexicographic order of two code point sequences
SeqLess(a, b) ==
    IF b = <<>> THEN FALSE
    ELSE IF a = <<>> THEN TRUE
    ELSE IF Head(a) /= Head(b) THEN Head(a) < Head(b)
    ELSE SeqLess(Tail(a), Tail(b))

\* a < b on Python str
StrLess(a, b) == SeqLess(CodePoints(a), CodePoints(b))

Range(s) == {s[i] : i \in 1..Len(s)}

\* x in list
InList(x, s) == x \in Range(s)

-----------------------------------------------------------------------------
(* sklearn.preprocessing.LabelEncoder as the code uses it: fit(y) stores    *)
(* classes_ = the sorted distinct labels; transform([v])[0] is the index of *)
(* v in classes_, and raises ValueError on a label classes_ does not hold.  *)

RECURSIVE InsertSorted(_, _)
InsertSorted(x, s) ==
    IF s = <<>> THEN <<x>>
    ELSE IF x = Head(s) THEN s
    ELSE IF StrLess(x, Head(s)) THEN <<x>> \o s
    ELSE <<Head(s)>> \o InsertSorted(x, Tail(s))

RECURSIVE SortedUnique(_)
SortedUnique(s) ==
    IF s = <<>> THEN <<>> ELSE InsertSorted(Head(s), SortedUnique(Tail(s)))

NoEncoder == [set |-> FALSE, classes_ |-> <<>>]

\* classes_ kept in the order listed
LabelEncoderFit_Unsorted(y) == [set |-> TRUE, classes_ |-> y]

LabelEncoderFit(y) == [set |-> TRUE, classes_ |-> SortedUnique(y)]

\* the zero-based position of label v in classes_ (v is in classes_)
IndexOf(v, classes) == (CHOOSE i \in 1..Len(classes) : classes[i] = v) - 1

\* transform([v])[0]: [raised |-> name of the exception or "", code |-> int]
LabelEncoderTransform(enc, v) ==
    IF ~enc.set THEN [raised |-> "AttributeError", code |-> -1]
    ELSE IF ~InList(v, enc.classes_) THEN [raised |-> "ValueError:unseen label", code |-> -1]
    ELSE [raised |-> "", code |-> IndexOf(v, enc.classes_)]

-----------------------------------------------------------------------------
(* Rationals [nan, num, den] with den > 0, kept in lowest terms.  nan marks *)
(* a float that is not a number: every comparison with it is false.         *)

RECURSIVE GCD(_, _)
GCD(a, b) == IF b = 0 THEN a ELSE GCD(b, a % b)

Abs(n) == IF n < 0 THEN -n ELSE n

NaN == [nan |-> TRUE, num |-> 0, den |-> 1]

\* n / d as a float: a division by zero gives a non-finite float
Rat(n, d) ==
    IF d = 0 THEN NaN
    ELSE LET g == GCD(Abs(n), Abs(d))
             sgn == IF d < 0 THEN -1 ELSE 1
         IN  [nan |-> FALSE, num |-> sgn * (n \div g), den |-> sgn * (d \div g)]

RatInt(n) == [nan |-> FALSE, num |-> n, den |-> 1]

RatAdd(a, b) ==
    IF a.nan \/ b.nan THEN NaN
    ELSE Rat(a.num * b.den + b.num * a.den, a.den * b.den)

RatScale(k, a) == IF a.nan THEN NaN ELSE Rat(k * a.num, a.den)

\* a < b on Python floats
PyLess(a, b) == ~a.nan /\ ~b.nan /\ a.num * b.den < b.num * a.den

\* the builtins min(a, b) and max(a, b): the first argument is kept unless
\* the second is strictly smaller (larger)
PyMin(a, b) == IF PyLess(b, a) THEN b ELSE a

PyMax(a, b) == IF PyLess(a, b) THEN b ELSE a

\* max(0.0, prediction): the upper cap forgotten
Clamp_NoUpperCap(prediction) == PyMax(RatInt(0), prediction)

\* max(0.0, min(100.0, prediction))
Clamp(prediction) == PyMax(RatInt(0), PyMin(RatInt(100), prediction))

\* round(x, 2) of a float 0 <= x <= 100, in hundredths.  A decimal tie is no
\* tie in binary: the float lies on either side of it, so both neighbours
\* are possible results.  round(nan, 2) is nan: the result -1 marks it.
Round2(x) ==
    IF x.nan THEN {-1}
    ELSE LET q == (x.num * 100) \div x.den
             r == (x.num * 100) % x.den
         IN  IF 2 * r < x.den THEN {q}
             ELSE IF 2 * r > x.den THEN {q + 1}
             ELSE {q, q + 1}

-----------------------------------------------------------------------------
(* StandardScaler with mean_ and scale_ assigned by hand, in hundredths.    *)

NoScaler == [set |-> FALSE, mean_ |-> <<>>, scale_ |-> <<>>]

\* the scale of the country code is left at zero
ApproximateScaler_ZeroScale ==
    [set |-> TRUE,
     mean_ |-> <<201800, 5000, 70, 500, 150>>,
     scale_ |-> <<500, 1500, 15, 0, 120>>]

\* mean_ = [2018.0, 50.0, 0.7, 5.0, 1.5], scale_ = [5.0, 15.0, 0.15, 3.0, 1.2]
ApproximateScaler ==
    [set |-> TRUE,
     mean_ |-> <<201800, 5000, 70, 500, 150>>,
     scale_ |-> <<500, 1500, 15, 300, 120>>]

\* the two category codes change places
Features_CodesSwapped(year, enrollment, index, country_code, field_code) ==
    <<year * 100, enrollment, index, field_code * 100, country_code * 100>>

\* np.array([[year, enrollment, index, country_encoded, field_encoded]])
Features(year, enrollment, index, country_code, field_code) ==
    <<year * 100, enrollment, index, country_code * 100, field_code * 100>>

\* the scaler divides by scale_ and does not subtract mean_
ScalerTransform_NoCentering(sc, x) ==
    IF ~sc.set THEN [raised |-> "AttributeError", scaled |-> <<>>]
    ELSE [raised |-> "",
          scaled |-> [i \in 1..Len(x) |-> Rat(x[i], sc.scale_[i])]]

\* scaler.transform(features): (x - mean_) / scale_, element by element
ScalerTransform(sc, x) ==
    IF ~sc.set THEN [raised |-> "AttributeError", scaled |-> <<>>]
    ELSE [raised |-> "",
          scaled |-> [i \in 1..Len(x) |-> Rat(x[i] - sc.mean_[i], sc.scale_[i])]]

-----------------------------------------------------------------------------
(* The regressor.  The artifact on disk is whatever training pickled: a     *)
(* linear regressor (two stand for all), one whose coefficients are not     *)
(* numbers, or an object whose predict raises on a 5-feature row.  The      *)
(* fallback is an SGDRegressor fitted on np.random.rand data: its           *)
(* coefficients differ from start to start.                                 *)

NoModel == [loaded |-> FALSE, origin |-> "", type |-> "NoneType",
            coef |-> <<>>, intercept |-> 0, nan |-> FALSE]

Regressor(origin, type, coef, intercept, nan) ==
    [loaded |-> TRUE, origin |-> origin, type |-> type,
     coef |-> coef, intercept |-> intercept, nan |-> nan]

Artifacts == {"sgd", "sgd_nan", "incompatible"}

\* joblib.load of a readable artifact
Unpickle(a) ==
    CASE a = "sgd" -> Regressor("disk", "SGDRegressor", <<3, 2, 40, 1, -2>>, 60, FALSE)
      [] a = "sgd_nan" -> Regressor("disk", "SGDRegressor", <<0, 0, 0, 0, 0>>, 0, TRUE)
      [] a = "incompatible" -> Regressor("disk", "Incompatible", <<>>, 0, FALSE)

\* SGDRegressor(random_state=42).fit(dummy_X, dummy_y) on unseeded random data
FallbackFits ==
    {Regressor("fallback", "SGDRegressor", <<1, 1, 1, 1, 1>>, 50, FALSE),
     Regressor("fallback", "SGDRegressor", <<-20, 5, 0, 30, 7>>, 10, FALSE)}

RECURSIVE Dot(_, _, _)
\* coef[i..] . x[i..]
Dot(coef, x, i) ==
    IF i > Len(coef) THEN RatInt(0)
    ELSE RatAdd(RatScale(coef[i], x[i]), Dot(coef, x, i + 1))

\* model.predict(features_scaled)[0]
ModelPredict(m, x) ==
    IF ~m.loaded THEN [raised |-> "AttributeError", value |-> NaN]
    ELSE IF m.type = "Incompatible" THEN [raised |-> "ValueError:predict", value |-> NaN]
    ELSE IF m.nan THEN [raised |-> "", value |-> NaN]
    ELSE [raised |-> "", value |-> RatAdd(RatInt(m.intercept), Dot(m.coef, x, 1))]

-----------------------------------------------------------------------------
(* Requests and responses.                                                  *)

YEAR_MIN == 2000
YEAR_MAX == 2030
ENROLLMENT_MIN == 0
ENROLLMENT_MAX == 10000
GAP_INDEX_MIN == 0
GAP_INDEX_MAX == 100
\* year > 2025 and gender_gap_index < 0.5 lower the confidence
CONFIDENCE_YEAR == 2025
CONFIDENCE_GAP_INDEX == 50

\* the inputs a caller sends: each range's two edges, one value outside on
\* either side, and the two thresholds of the confidence label
Years == {1999, 2000, 2025, 2026, 2030, 2031}
Enrollments == {-1, 0, 10000, 10001}
GapIndexes == {-1, 0, 49, 50, 100, 101}
CountryNames == {"Australia", "Brazil", "Canada", "China", "France", "Germany",
                 "India", "Japan", "South Korea", "United Kingdom",
                 "United States", "USA"}
FieldNames == {"Biology", "Computer Science", "Engineering", "Mathematics", "Physics"}

Requests ==
    [year : Years, female_enrollment_percent : Enrollments,
     gender_gap_index : GapIndexes, country : CountryNames, stem_field : FieldNames]

NoRequest ==
    [year |-> 0, female_enrollment_percent |-> 0, gender_gap_index |-> 0,
     country |-> "", stem_field |-> ""]

\* input_features of a prediction; a key the response lacks is "" or -1
NoInputFeatures ==
    [year |-> -1, female_enrollment_percent |-> -1, gender_gap_index |-> -1,
     country_encoded |-> -1, stem_field_encoded |-> -1,
     country_name |-> "", stem_field_name |-> "", country |-> "", stem_field |-> ""]

NoHealth ==
    [status |-> "", model_loaded |-> FALSE, country_encoder_ready |-> FALSE,
     field_encoder_ready |-> FALSE, scaler_ready |-> FALSE,
     encoders_ready |-> FALSE, ready_for_predictions |-> FALSE, type |-> ""]

\* What a caller gets back, with what the execution that produced it did:
\*   status      HTTP status (0: a call of a STEMPredictionService method)
\*   raised      the exception a service method left to its caller ("": none)
\*   error       detail.error of an HTTPException
\*   cause       the exception caught in the handler, as "<call>:<exception>"
\*   errors      the validation errors: [loc, named, listed]
\*   calls       the encoder, scaler and regressor calls made, in order
\*   features    the vector handed to the scaler, scaled: to the regressor
NoResponse ==
    [op |-> "none", status |-> 0, raised |-> "", error |-> "", cause |-> "",
     errors |-> {}, request |-> NoRequest, calls |-> <<>>,
     features |-> <<>>, scaled |-> <<>>,
     predicted_graduation_rate |-> -1, model_confidence |-> "",
     input_features |-> NoInputFeatures, country_rank |-> -1, field_rank |-> -1,
     health |-> NoHealth, listing |-> <<>>, total_count |-> -1,
     is_valid |-> FALSE, importance |-> <<>>]

-----------------------------------------------------------------------------
(* main.py: PredictionInput, validated by pydantic before the handler runs. *)
(* Every field is validated and every failure reported; one failure makes   *)
(* the framework answer 422 without calling the handler.                    *)

supported_countries ==
    <<"Australia", "Brazil", "Canada", "China", "France", "Germany", "India",
      "Japan", "South Korea", "United Kingdom", "United States">>

supported_fields == <<"Biology", "Computer Science", "Engineering", "Mathematics">>

\* an error of a numeric field names no value and lists no set
RangeError(loc) == [loc |-> loc, named |-> "", listed |-> <<>>]

\* "Country '{v}' is not supported. Supported countries: {', '.join(...)}"
CategoryError(loc, v, listed) == [loc |-> loc, named |-> v, listed |-> listed]

\* year: int = Field(..., ge=2000, le=2030)
YearOk(year) == YEAR_MIN <= year /\ year <= YEAR_MAX

\* female_enrollment_percent: float = Field(..., ge=0.0, le=100.0)
EnrollmentOk(e) == ENROLLMENT_MIN <= e /\ e <= ENROLLMENT_MAX

\* le=1.0 left out
GapIndexOk_NoUpper(g) == GAP_INDEX_MIN <= g

\* gender_gap_index: float = Field(..., ge=0.0, le=1.0)
GapIndexOk(g) == GAP_INDEX_MIN <= g /\ g <= GAP_INDEX_MAX

\* the message names the value and forgets the list
validate_country_NoList(v) ==
    IF ~InList(v, supported_countries) THEN {CategoryError("country", v, <<>>)} ELSE {}

validate_country(v) ==
    IF ~InList(v, supported_countries)
    THEN {CategoryError("country", v, supported_countries)} ELSE {}

validate_stem_field(v) ==
    IF ~InList(v, supported_fields)
    THEN {CategoryError("stem_field", v, supported_fields)} ELSE {}

\* the errors pydantic collects for a request body
PredictionInputErrors(r) ==
    (IF YearOk(r.year) THEN {} ELSE {RangeError("year")})
    \cup (IF EnrollmentOk(r.female_enrollment_percent)
          THEN {} ELSE {RangeError("female_enrollment_percent")})
    \cup (IF GapIndexOk(r.gender_gap_index) THEN {} ELSE {RangeError("gender_gap_index")})
    \cup validate_country(r.country)
    \cup validate_stem_field(r.stem_field)

-----------------------------------------------------------------------------
(* main.py: the /predict handler.                                           *)

\* the second if written as if/else: the year no longer counts
ConfidenceScore_IndexOnly(year, gap_index) ==
    IF gap_index < CONFIDENCE_GAP_INDEX THEN "medium" ELSE "high"

\* confidence_score: "high", then two independent ifs that set "medium"
ConfidenceScore(year, gap_index) ==
    LET first == IF year > CONFIDENCE_YEAR THEN "medium" ELSE "high"
    IN  IF gap_index < CONFIDENCE_GAP_INDEX THEN "medium" ELSE first

\* raise HTTPException(status_code=400, ...) inside the try: re-raised as it is
Http400(base, error, loc, v, listed) ==
    [base EXCEPT !.status = 400, !.error = error,
                 !.errors = {CategoryError(loc, v, listed)}]

\* the handler's catch-all answering 200 with a default rate of 0
Http500_DefaultRate(base, calls, cause) ==
    [base EXCEPT !.status = 200, !.calls = calls, !.cause = cause,
                 !.predicted_graduation_rate = 0]

\* the handler's catch-all answering 400
Http500_As400(base, calls, cause) ==
    [base EXCEPT !.status = 400, !.error = "Prediction Failed",
                 !.calls = calls, !.cause = cause]

\* except Exception as e: raise HTTPException(status_code=500, ...)
Http500(base, calls, cause) ==
    [base EXCEPT !.status = 500, !.error = "Prediction Failed",
                 !.calls = calls, !.cause = cause]

\* the ranks are the zero-based codes themselves
PredictionOutput_RankIsCode(base, calls, features, scaled, input_data, ce, fe, rate) ==
    [base EXCEPT
        !.status = 200, !.calls = calls, !.features = features, !.scaled = scaled,
        !.predicted_graduation_rate = rate,
        !.model_confidence = ConfidenceScore(input_data.year, input_data.gender_gap_index),
        !.input_features =
            [NoInputFeatures EXCEPT
                !.year = input_data.year,
                !.female_enrollment_percent = input_data.female_enrollment_percent,
                !.gender_gap_index = input_data.gender_gap_index,
                !.country_encoded = ce, !.stem_field_encoded = fe,
                !.country_name = input_data.country,
                !.stem_field_name = input_data.stem_field],
        !.country_rank = ce, !.field_rank = fe]

\* return PredictionOutput(...)
PredictionOutput(base, calls, features, scaled, input_data, ce, fe, rate) ==
    [base EXCEPT
        !.status = 200, !.calls = calls, !.features = features, !.scaled = scaled,
        !.predicted_graduation_rate = rate,
        !.model_confidence = ConfidenceScore(input_data.year, input_data.gender_gap_index),
        !.input_features =
            [NoInputFeatures EXCEPT
                !.year = input_data.year,
                !.female_enrollment_percent = input_data.female_enrollment_percent,
                !.gender_gap_index = input_data.gender_gap_index,
                !.country_encoded = ce, !.stem_field_encoded = fe,
                !.country_name = input_data.country,
                !.stem_field_name = input_data.stem_field],
        !.country_rank = ce + 1, !.field_rank = fe + 1]

\* the responses predict_graduation_rate(input_data) can give in this state
predict_graduation_rate(input_data) ==
    LET base == [NoResponse EXCEPT !.op = "/predict", !.request = input_data]
        c1 == <<"country_encoder.transform">>
        c2 == c1 \o <<"field_encoder.transform">>
        c3 == c2 \o <<"scaler.transform">>
        c4 == c3 \o <<"model.predict">>
    IN
    IF ~InList(input_data.country, COUNTRIES)
    THEN {Http400(base, "Invalid Country", "country", input_data.country, COUNTRIES)}
    ELSE IF ~InList(input_data.stem_field, STEM_FIELDS)
    THEN {Http400(base, "Invalid STEM Field", "stem_field", input_data.stem_field, STEM_FIELDS)}
    ELSE
    LET ce == LabelEncoderTransform(country_encoder, input_data.country) IN
    IF ce.raised /= "" THEN {Http500(base, c1, "country_encoder.transform:" \o ce.raised)}
    ELSE
    LET fe == LabelEncoderTransform(field_encoder, input_data.stem_field) IN
    IF fe.raised /= "" THEN {Http500(base, c2, "field_encoder.transform:" \o fe.raised)}
    ELSE
    LET features == Features(input_data.year, input_data.female_enrollment_percent,
                             input_data.gender_gap_index, ce.code, fe.code)
        st == ScalerTransform(scaler, features)
    IN
    IF st.raised /= "" THEN {Http500(base, c3, "scaler.transform:" \o st.raised)}
    ELSE
    LET p == ModelPredict(model, st.scaled) IN
    IF p.raised /= "" THEN {Http500(base, c4, "model.predict:" \o p.raised)}
    ELSE
    {PredictionOutput(base, c4, features, st.scaled, input_data, ce.code, fe.code, rate) :
        rate \in Round2(Clamp(p.value))}

\* POST /predict: the body is validated, then the handler runs
PredictResponses(input_data) ==
    IF PredictionInputErrors(input_data) /= {}
    THEN {[NoResponse EXCEPT !.op = "/predict", !.status = 422,
                             !.request = input_data,
                             !.errors = PredictionInputErrors(input_data)]}
    ELSE predict_graduation_rate(input_data)

\* the handler refits the fallback regressor on every request
Predict_Refit(input_data) ==
    /\ response.op = "none"
    /\ response' \in PredictResponses(input_data)
    /\ IF model.origin = "fallback" THEN model' \in FallbackFits ELSE model' = model
    /\ UNCHANGED <<modelFile, apiPhase, scaler, country_encoder, field_encoder,
                   COUNTRIES, STEM_FIELDS, svcPhase, prediction_service, clients>>

\* one POST /predict, answered before the next request is taken
Predict(input_data) ==
    /\ response.op = "none"
    /\ response' \in PredictResponses(input_data)
    /\ UNCHANGED <<modelFile, apiPhase, apiGlobals, svcPhase, prediction_service, clients>>

-----------------------------------------------------------------------------
(* main.py: the read-only endpoints.                                        *)

\* the status never leaves "healthy"
health_check_NeverDegraded ==
    [status |-> "healthy",
     model_loaded |-> model.loaded,
     country_encoder_ready |-> country_encoder.set,
     field_encoder_ready |-> field_encoder.set,
     scaler_ready |-> scaler.set,
     encoders_ready |-> FALSE,
     ready_for_predictions |-> /\ model.loaded /\ country_encoder.set
                               /\ field_encoder.set /\ scaler.set,
     type |-> IF model.loaded THEN model.type ELSE "Not loaded"]

\* GET /health.  No statement of its try block raises (reads of globals,
\* len, type, utcnow), so the except branch, which answers "unhealthy", is
\* never entered.
health_check ==
    LET ready == /\ model.loaded /\ country_encoder.set
                 /\ field_encoder.set /\ scaler.set
    IN  [status |-> IF ~ready THEN "degraded" ELSE "healthy",
         model_loaded |-> model.loaded,
         country_encoder_ready |-> country_encoder.set,
         field_encoder_ready |-> field_encoder.set,
         scaler_ready |-> scaler.set,
         encoders_ready |-> FALSE,
         ready_for_predictions |-> ready,
         type |-> IF model.loaded THEN model.type ELSE "Not loaded"]

Health ==
    /\ response.op = "none"
    /\ response' = [NoResponse EXCEPT !.op = "/health", !.status = 200,
                                      !.health = health_check]
    /\ UNCHANGED <<modelFile, apiPhase, apiGlobals, svcPhase, prediction_service, clients>>

\* GET /
Root ==
    /\ response.op = "none"
    /\ response' = [NoResponse EXCEPT !.op = "/", !.status = 200]
    /\ UNCHANGED <<modelFile, apiPhase, apiGlobals, svcPhase, prediction_service, clients>>

\* GET /countries answers with the six countries that prediction.py supports
GetCountries_ServiceList ==
    /\ response.op = "none"
    /\ response' = [NoResponse EXCEPT !.op = "/countries", !.status = 200,
                                      !.listing = <<"Australia", "Canada", "China",
                                                     "Germany", "India", "USA">>,
                                      !.total_count = 6]
    /\ UNCHANGED <<modelFile, apiPhase, apiGlobals, svcPhase, prediction_service, clients>>

\* GET /countries
GetCountries ==
    /\ response.op = "none"
    /\ response' = [NoResponse EXCEPT !.op = "/countries", !.status = 200,
                                      !.listing = COUNTRIES,
                                      !.total_count = Len(COUNTRIES)]
    /\ UNCHANGED <<modelFile, apiPhase, apiGlobals, svcPhase, prediction_service, clients>>

\* GET /stem-fields
GetStemFields ==
    /\ response.op = "none"
    /\ response' = [NoResponse EXCEPT !.op = "/stem-fields", !.status = 200,
                                      !.listing = STEM_FIELDS,
                                      !.total_count = Len(STEM_FIELDS)]
    /\ UNCHANGED <<modelFile, apiPhase, apiGlobals, svcPhase, prediction_service, clients>>

-----------------------------------------------------------------------------
(* main.py: startup.                                                        *)

\* the encoder fitted on the six countries of prediction.py
FitCountryEncoder_OtherList ==
    LabelEncoderFit(<<"Australia", "Canada", "China", "Germany", "India", "USA">>)

\* country_encoder = LabelEncoder(); country_encoder.fit(COUNTRIES)
FitCountryEncoder == LabelEncoderFit(COUNTRIES)

\* field_encoder = LabelEncoder(); field_encoder.fit(STEM_FIELDS)
FitFieldEncoder == LabelEncoderFit(STEM_FIELDS)

\* load_model_and_encoders(), called once by startup_event.  joblib.load of
\* an unreadable file raises before any global is assigned.  The handlers
\* are plain functions of the module: a harness that imports main without
\* running the startup event calls them while apiPhase is "init".  Startup
\* runs between two requests, never inside one.
LoadModelAndEncoders ==
    /\ apiPhase = "init"
    /\ response.op = "none"
    /\ IF modelFile = "corrupt"
       THEN /\ apiPhase' = "failed"
            /\ UNCHANGED <<model, scaler, country_encoder, field_encoder>>
       ELSE /\ apiPhase' = "ready"
            /\ IF modelFile = "missing"
               THEN model' \in FallbackFits
               ELSE model' = Unpickle(modelFile)
            /\ country_encoder' = FitCountryEncoder
            /\ field_encoder' = FitFieldEncoder
            /\ scaler' = ApproximateScaler
    /\ UNCHANGED <<modelFile, COUNTRIES, STEM_FIELDS, svcPhase, prediction_service,
                   response, clients>>

-----------------------------------------------------------------------------
(* prediction.py: STEMPredictionService.                                    *)

NoService ==
    [model |-> NoModel, scaler |-> NoScaler,
     country_encoder |-> NoEncoder, field_encoder |-> NoEncoder,
     countries |-> <<>>, stem_fields |-> <<>>]

\* self.countries and self.stem_fields, set in __init__
ServiceCountries == <<"Australia", "Canada", "China", "Germany", "India", "USA">>

ServiceStemFields == <<"Biology", "Computer Science", "Engineering", "Mathematics">>

\* the constructor fits a fallback regressor when the file is missing, as
\* load_model_and_encoders does
ServiceInit_Fallback ==
    /\ svcPhase = "none"
    /\ response.op = "none"
    /\ IF modelFile = "corrupt"
       THEN /\ svcPhase' = "failed"
            /\ response' = [NoResponse EXCEPT !.op = "STEMPredictionService",
                                              !.raised = "Exception"]
            /\ UNCHANGED prediction_service
       ELSE /\ svcPhase' = "constructed"
            /\ \E m \in (IF modelFile = "missing"
                         THEN FallbackFits ELSE {Unpickle(modelFile)}) :
                  prediction_service' =
                      [model |-> m,
                       scaler |-> ApproximateScaler,
                       country_encoder |-> LabelEncoderFit(ServiceCountries),
                       field_encoder |-> LabelEncoderFit(ServiceStemFields),
                       countries |-> ServiceCountries,
                       stem_fields |-> ServiceStemFields]
            /\ UNCHANGED response
    /\ UNCHANGED <<modelFile, apiPhase, apiGlobals, clients>>

\* prediction_service = STEMPredictionService(): __init__, _load_model and
\* _initialize_encoders.  _load_model raises FileNotFoundError when the file
\* is missing and whatever joblib.load raises when it is unreadable; the
\* constructor then raises and the name prediction_service is never bound.
ServiceInit ==
    /\ svcPhase = "none"
    /\ response.op = "none"
    /\ IF modelFile \in {"missing", "corrupt"}
       THEN /\ svcPhase' = "failed"
            /\ response' = [NoResponse EXCEPT
                               !.op = "STEMPredictionService",
                               !.raised = IF modelFile = "missing"
                                          THEN "FileNotFoundError" ELSE "Exception"]
            /\ UNCHANGED prediction_service
       ELSE /\ svcPhase' = "constructed"
            /\ prediction_service' =
                  [model |-> Unpickle(modelFile),
                   scaler |-> ApproximateScaler,
                   country_encoder |-> LabelEncoderFit(ServiceCountries),
                   field_encoder |-> LabelEncoderFit(ServiceStemFields),
                   countries |-> ServiceCountries,
                   stem_fields |-> ServiceStemFields]
            /\ UNCHANGED response
    /\ UNCHANGED <<modelFile, apiPhase, apiGlobals, clients>>

\* validate_input reports every failing check, not the first alone
Service_validate_input_AllErrors(self, year, female_enrollment, gender_gap_index, country, stem_field) ==
    LET errors ==
            (IF YearOk(year) THEN {} ELSE {RangeError("year")})
            \cup (IF EnrollmentOk(female_enrollment)
                  THEN {} ELSE {RangeError("female_enrollment_percent")})
            \cup (IF GapIndexOk(gender_gap_index) THEN {} ELSE {RangeError("gender_gap_index")})
            \cup (IF InList(country, self.countries)
                  THEN {} ELSE {CategoryError("country", country, self.countries)})
            \cup (IF InList(stem_field, self.stem_fields)
                  THEN {} ELSE {CategoryError("stem_field", stem_field, self.stem_fields)})
    IN  [is_valid |-> errors = {}, errors |-> errors]

\* validate_input: the first failing check decides the message
Service_validate_input(self, year, female_enrollment, gender_gap_index, country, stem_field) ==
    IF ~(YEAR_MIN <= year /\ year <= YEAR_MAX)
    THEN [is_valid |-> FALSE, errors |-> {RangeError("year")}]
    ELSE IF ~(ENROLLMENT_MIN <= female_enrollment /\ female_enrollment <= ENROLLMENT_MAX)
    THEN [is_valid |-> FALSE, errors |-> {RangeError("female_enrollment_percent")}]
    ELSE IF ~(GAP_INDEX_MIN <= gender_gap_index /\ gender_gap_index <= GAP_INDEX_MAX)
    THEN [is_valid |-> FALSE, errors |-> {RangeError("gender_gap_index")}]
    ELSE IF ~InList(country, self.countries)
    THEN [is_valid |-> FALSE, errors |-> {CategoryError("country", country, self.countries)}]
    ELSE IF ~InList(stem_field, self.stem_fields)
    THEN [is_valid |-> FALSE,
          errors |-> {CategoryError("stem_field", stem_field, self.stem_fields)}]
    ELSE [is_valid |-> TRUE, errors |-> {}]

\* the exception a method leaves to its caller
Raise(base, raised, calls, cause) ==
    [base EXCEPT !.raised = raised, !.calls = calls, !.cause = cause]

\* the result dict of predict
ServiceResult(base, calls, features, scaled, r, ce, fe, rate) ==
    [base EXCEPT
        !.calls = calls, !.features = features, !.scaled = scaled,
        !.predicted_graduation_rate = rate,
        !.input_features =
            [NoInputFeatures EXCEPT
                !.year = r.year,
                !.female_enrollment_percent = r.female_enrollment_percent,
                !.gender_gap_index = r.gender_gap_index,
                !.country = r.country, !.stem_field = r.stem_field,
                !.country_encoded = ce, !.stem_field_encoded = fe]]

\* predict, with preprocess_input in line: what the caller can get
Service_predict(self, r) ==
    LET base == [NoResponse EXCEPT !.op = "predict", !.request = r]
        v == Service_validate_input(self, r.year, r.female_enrollment_percent,
                                    r.gender_gap_index, r.country, r.stem_field)
        c1 == <<"country_encoder.transform">>
        c2 == c1 \o <<"field_encoder.transform">>
        c3 == c2 \o <<"scaler.transform">>
        c4 == c3 \o <<"model.predict">>
    IN
    IF ~v.is_valid
    THEN {[base EXCEPT !.raised = "ValueError", !.errors = v.errors]}
    ELSE
    LET ce == LabelEncoderTransform(self.country_encoder, r.country) IN
    IF ce.raised /= "" THEN {Raise(base, ce.raised, c1, "country_encoder.transform:" \o ce.raised)}
    ELSE
    LET fe == LabelEncoderTransform(self.field_encoder, r.stem_field) IN
    IF fe.raised /= "" THEN {Raise(base, fe.raised, c2, "field_encoder.transform:" \o fe.raised)}
    ELSE
    LET features == Features(r.year, r.female_enrollment_percent,
                             r.gender_gap_index, ce.code, fe.code)
        st == ScalerTransform(self.scaler, features)
    IN
    IF st.raised /= "" THEN {Raise(base, st.raised, c3, "scaler.transform:" \o st.raised)}
    ELSE
    LET p == ModelPredict(self.model, st.scaled) IN
    IF p.raised /= "" THEN {Raise(base, p.raised, c4, "model.predict:" \o p.raised)}
    ELSE
    {ServiceResult(base, c4, features, st.scaled, r, ce.code, fe.code, rate) :
        rate \in Round2(Clamp(p.value))}

\* get_feature_importance: abs(coef_) of a linear model, None otherwise; a
\* coefficient that is not a number is -1 here
Service_get_feature_importance(self) ==
    IF self.model.type /= "SGDRegressor" THEN <<>>
    ELSE [i \in 1..Len(self.model.coef) |->
             IF self.model.nan THEN -1 ELSE Abs(self.model.coef[i])]

\* STEMPredictionService.health_check
Service_health_check(self) ==
    [NoHealth EXCEPT
        !.model_loaded = self.model.loaded,
        !.encoders_ready = /\ self.country_encoder.set /\ self.field_encoder.set
                           /\ self.scaler.set,
        !.type = IF self.model.loaded THEN self.model.type ELSE "None"]

ServiceValidateInput(r) ==
    /\ svcPhase = "constructed"
    /\ response.op = "none"
    /\ LET v == Service_validate_input(prediction_service, r.year,
                    r.female_enrollment_percent, r.gender_gap_index,
                    r.country, r.stem_field)
       IN  response' = [NoResponse EXCEPT !.op = "validate_input", !.request = r,
                                          !.is_valid = v.is_valid, !.errors = v.errors]
    /\ UNCHANGED <<modelFile, apiPhase, apiGlobals, svcPhase, prediction_service, clients>>

ServicePredict(r) ==
    /\ svcPhase = "constructed"
    /\ response.op = "none"
    /\ response' \in Service_predict(prediction_service, r)
    /\ UNCHANGED <<modelFile, apiPhase, apiGlobals, svcPhase, prediction_service, clients>>

ServiceGetFeatureImportance ==
    /\ svcPhase = "constructed"
    /\ response.op = "none"
    /\ response' = [NoResponse EXCEPT
                       !.op = "get_feature_importance",
                       !.importance = Service_get_feature_importance(prediction_service)]
    /\ UNCHANGED <<modelFile, apiPhase, apiGlobals, svcPhase, prediction_service, clients>>

ServiceHealthCheck ==
    /\ svcPhase = "constructed"
    /\ response.op = "none"
    /\ response' = [NoResponse EXCEPT
                       !.op = "health_check",
                       !.health = Service_health_check(prediction_service),
                       !.total_count = Len(prediction_service.countries)]
    /\ UNCHANGED <<modelFile, apiPhase, apiGlobals, svcPhase, prediction_service, clients>>

-----------------------------------------------------------------------------
(* The caller takes the response; the next request can then be told apart   *)
(* from the last.                                                           *)

Receive ==
    /\ response.op /= "none"
    /\ response' = NoResponse
    /\ UNCHANGED <<modelFile, apiPhase, apiGlobals, svcPhase, prediction_service, clients>>

-----------------------------------------------------------------------------

\* the service instance exists and its caller is not waiting for an answer
Serving == svcPhase = "constructed" /\ response.op = "none"

ModelFiles == {"missing", "corrupt"} \cup Artifacts

\* the callers that can have a /predict request in flight at the same time
MaxClients == 2

Clients == 1..MaxClients

IdleClient == [phase |-> "idle", request |-> NoRequest, outcome |-> NoResponse]

Init ==
    /\ modelFile \in ModelFiles
    /\ apiPhase = "init"
    /\ model = NoModel
    /\ scaler = NoScaler
    /\ country_encoder = NoEncoder
    /\ field_encoder = NoEncoder
    /\ COUNTRIES = <<"Australia", "Brazil", "Canada", "China", "France", "Germany",
                     "India", "Japan", "South Korea", "United Kingdom", "United States">>
    /\ STEM_FIELDS = <<"Biology", "Computer Science", "Engineering", "Mathematics">>
    /\ svcPhase = "none"
    /\ prediction_service = NoService
    /\ response = NoResponse
    /\ clients = [c \in Clients |-> IdleClient]

Next ==
    \/ LoadModelAndEncoders
    \/ Root
    \/ Health
    \/ GetCountries
    \/ GetStemFields
    \/ (response.op = "none" /\ \E r \in Requests : Predict(r))
    \/ ServiceInit
    \/ (Serving /\ \E r \in Requests : ServiceValidateInput(r))
    \/ (Serving /\ \E r \in Requests : ServicePredict(r))
    \/ ServiceGetFeatureImportance
    \/ ServiceHealthCheck
    \/ Receive

Spec == Init /\ [][Next]_vars

-----------------------------------------------------------------------------
(* Concurrent callers of POST /predict.  predict_graduation_rate is an     *)
(* async def without an await: once the event loop starts a request's      *)
(* handler it runs to its return before any other handler starts.  What    *)
(* can interleave is the arrival of the requests, the order in which the   *)
(* loop picks them up, and the moment each caller reads its answer.        *)

ConcurrentRequests ==
    {r \in Requests : /\ r.year \in {2025, 2031}
                      /\ r.female_enrollment_percent = 10000
                      /\ r.gender_gap_index \in {49, 100}
                      /\ r.country \in {"Brazil", "United States", "USA"}
                      /\ r.stem_field \in {"Biology", "Physics"}}

\* a caller's request reaches the server, which has finished startup
Send(c, r) ==
    /\ apiPhase = "ready"
    /\ clients[c].phase = "idle"
    /\ clients' = [clients EXCEPT ![c] = [phase |-> "sent", request |-> r,
                                          outcome |-> NoResponse]]
    /\ UNCHANGED <<modelFile, apiPhase, apiGlobals, svcPhase, prediction_service, response>>

\* the handler refits the fallback regressor while it serves the request
Handle_Refit(c) ==
    /\ clients[c].phase = "sent"
    /\ IF model.origin = "fallback" THEN model' \in FallbackFits ELSE model' = model
    /\ \E out \in PredictResponses(clients[c].request) :
           clients' = [clients EXCEPT ![c].phase = "answered", ![c].outcome = out]
    /\ UNCHANGED <<modelFile, apiPhase, scaler, country_encoder, field_encoder,
                   COUNTRIES, STEM_FIELDS, svcPhase, prediction_service, response>>

\* the event loop runs one pending request's handler from entry to return
Handle(c) ==
    /\ clients[c].phase = "sent"
    /\ \E out \in PredictResponses(clients[c].request) :
           clients' = [clients EXCEPT ![c].phase = "answered", ![c].outcome = out]
    /\ UNCHANGED <<modelFile, apiPhase, apiGlobals, svcPhase, prediction_service, response>>

\* the caller has read its answer and may send again
Take(c) ==
    /\ clients[c].phase = "answered"
    /\ clients' = [clients EXCEPT ![c] = IdleClient]
    /\ UNCHANGED <<modelFile, apiPhase, apiGlobals, svcPhase, prediction_service, response>>

NextConcurrent ==
    \/ LoadModelAndEncoders
    \/ \E c \in Clients : \E r \in ConcurrentRequests : Send(c, r)
    \/ \E c \in Clients : Handle(c)
    \/ \E c \in Clients : Take(c)

SpecConcurrent == Init /\ [][NextConcurrent]_vars

-----------------------------------------------------------------------------
(* Properties.                                                              *)

\* a prediction came back: 200 from /predict, or predict returned its dict
Predicted ==
    \/ response.op = "/predict" /\ response.status = 200
    \/ response.op = "predict" /\ response.raised = ""

\* what the regressor returned in the execution that answered
RawPrediction ==
    IF response.op = "/predict"
    THEN ModelPredict(model, response.scaled).value
    ELSE ModelPredict(prediction_service.model, response.scaled).value

\* C1: every rate /predict or STEMPredictionService.predict returns is a
\* number with 0 <= rate <= 100, whatever the regressor returned (below 0,
\* above 100, not a number).
C1_RateWithinBounds ==
    Predicted => /\ response.predicted_graduation_rate >= 0
                 /\ response.predicted_graduation_rate <= 10000

\* C1 witness: the regressor returned more than 100 and /predict answered 100
C1_Witness ==
    /\ response.op = "/predict" /\ response.status = 200
    /\ PyLess(RatInt(100), RawPrediction)
    /\ response.predicted_graduation_rate = 10000

\* C2: model_confidence of a /predict answer is "medium" if year > 2025 or
\* gender_gap_index < 0.5, "high" otherwise, and never anything else.
C2_ConfidenceLabel ==
    (response.op = "/predict" /\ response.status = 200) =>
        /\ response.model_confidence \in {"high", "medium"}
        /\ response.model_confidence = "medium"
             <=> (response.request.year > 2025 \/ response.request.gender_gap_index < 50)

\* C2 witness: only the year calls for "medium", and "medium" is the label
C2_Witness ==
    /\ response.op = "/predict" /\ response.status = 200
    /\ response.request.year > 2025
    /\ response.request.gender_gap_index >= 50
    /\ response.model_confidence = "medium"

\* the request the claim C3 calls invalid, for the pipeline that got it
C3_Invalid(r, countries, fields) ==
    \/ r.year < 2000 \/ r.year > 2030
    \/ r.female_enrollment_percent < 0 \/ r.female_enrollment_percent > 10000
    \/ r.gender_gap_index < 0 \/ r.gender_gap_index > 100
    \/ r.country \notin countries
    \/ r.stem_field \notin fields

C3_ApiCountries ==
    {"Australia", "Brazil", "Canada", "China", "France", "Germany", "India",
     "Japan", "South Korea", "United Kingdom", "United States"}

C3_ServiceCountries == {"Australia", "Canada", "China", "Germany", "India", "USA"}

C3_Fields == {"Biology", "Computer Science", "Engineering", "Mathematics"}

\* C3: a request with a value out of range or an unsupported country or
\* field is rejected with an input error, and the execution that rejected
\* it called no encoder, no scaler and no regressor.
C3_RejectedBeforeAnyWork ==
    /\ (response.op = "/predict" /\ C3_Invalid(response.request, C3_ApiCountries, C3_Fields))
          => /\ response.status = 422
             /\ response.errors /= {}
             /\ response.calls = <<>>
    /\ (response.op = "predict" /\ C3_Invalid(response.request, C3_ServiceCountries, C3_Fields))
          => /\ response.raised = "ValueError"
             /\ response.errors /= {}
             /\ response.calls = <<>>

\* C3 witness: /predict rejected an index above 1 whose other fields are valid
C3_Witness ==
    /\ response.op = "/predict"
    /\ response.request.gender_gap_index > 100
    /\ ~C3_Invalid([response.request EXCEPT !.gender_gap_index = 100],
                   C3_ApiCountries, C3_Fields)
    /\ response.status = 422
    /\ response.calls = <<>>

\* some error of the answer names value v at loc and lists exactly `valid`
NamesAndLists(loc, v, valid) ==
    \E e \in response.errors :
        e.loc = loc /\ e.named = v /\ Range(e.listed) = valid

\* the answer is a rejection of the request
Rejected ==
    \/ response.op = "/predict" /\ response.status \in {400, 422}
    \/ response.op = "predict" /\ response.raised = "ValueError"

\* year, enrollment and index of the request are in range
C4_NumbersOk(r) ==
    /\ r.year >= 2000 /\ r.year <= 2030
    /\ r.female_enrollment_percent >= 0 /\ r.female_enrollment_percent <= 10000
    /\ r.gender_gap_index >= 0 /\ r.gender_gap_index <= 100

\* C4 as stated: every request with an unsupported country or field is
\* rejected with an error that names the rejected value and lists the
\* complete valid set, in /predict and in STEMPredictionService.predict.
C4_Original ==
    /\ response.op = "/predict" =>
         /\ response.request.country \notin C3_ApiCountries =>
               Rejected /\ NamesAndLists("country", response.request.country, C3_ApiCountries)
         /\ response.request.stem_field \notin C3_Fields =>
               Rejected /\ NamesAndLists("stem_field", response.request.stem_field, C3_Fields)
    /\ response.op = "predict" =>
         /\ response.request.country \notin C3_ServiceCountries =>
               Rejected /\ NamesAndLists("country", response.request.country, C3_ServiceCountries)
         /\ response.request.stem_field \notin C3_Fields =>
               Rejected /\ NamesAndLists("stem_field", response.request.stem_field, C3_Fields)

\* C4 amended: a request with an unsupported country or field is always
\* rejected.  /predict reports every unsupported value, naming it and
\* listing the complete valid set.  STEMPredictionService.predict reports
\* the first failing check only (year, enrollment, index, country, field):
\* the country is named and its set listed when the three numbers are in
\* range, the field when the country is supported as well.  The set listed
\* is the set the encoder of that category was fitted on.
C4_Amended ==
    /\ response.op = "/predict" =>
         /\ response.request.country \notin C3_ApiCountries =>
               /\ Rejected
               /\ NamesAndLists("country", response.request.country, C3_ApiCountries)
               /\ country_encoder.set => Range(country_encoder.classes_) = C3_ApiCountries
         /\ response.request.stem_field \notin C3_Fields =>
               /\ Rejected
               /\ NamesAndLists("stem_field", response.request.stem_field, C3_Fields)
               /\ field_encoder.set => Range(field_encoder.classes_) = C3_Fields
    /\ response.op = "predict" =>
         /\ response.request.country \notin C3_ServiceCountries =>
               /\ Rejected
               /\ C4_NumbersOk(response.request) =>
                    /\ NamesAndLists("country", response.request.country,
                                     Range(prediction_service.country_encoder.classes_))
                    /\ Range(prediction_service.country_encoder.classes_) = C3_ServiceCountries
         /\ response.request.stem_field \notin C3_Fields =>
               /\ Rejected
               /\ (C4_NumbersOk(response.request)
                   /\ response.request.country \in C3_ServiceCountries) =>
                    /\ NamesAndLists("stem_field", response.request.stem_field,
                                     Range(prediction_service.field_encoder.classes_))
                    /\ Range(prediction_service.field_encoder.classes_) = C3_Fields

\* C4 witness: /predict rejected a request whose country and field are both
\* unsupported, after startup, and reported both
C4_Witness ==
    /\ response.op = "/predict" /\ response.status = 422
    /\ country_encoder.set
    /\ NamesAndLists("country", "USA", C3_ApiCountries)
    /\ NamesAndLists("stem_field", "Physics", C3_Fields)

\* the number of labels of the set that sort before label l
Rank(l, labels) == Cardinality({k \in labels : StrLess(k, l)})

Reverse(q) == [i \in 1..Len(q) |-> q[Len(q) + 1 - i]]

\* every order the labels of list q can be listed in
Orders(q) ==
    {[i \in 1..Len(q) |-> q[f[i]]] :
        f \in {g \in [1..Len(q) -> 1..Len(q)] : \A i, j \in 1..Len(q) : i /= j => g[i] /= g[j]}}

\* C5: the code of a supported label is its zero-based rank among the
\* sorted labels of its set, so it is in [0, N) and a function of the label
\* and the set alone; fitting on the labels in another order gives the same
\* encoder; /predict encodes "United States" as 10 and "Computer Science"
\* as 1.
C5_CodeIsRank ==
    /\ (response.op = "/predict" /\ response.status = 200) =>
         /\ response.input_features.country_encoded
               = Rank(response.request.country, Range(COUNTRIES))
         /\ response.input_features.country_encoded \in 0..(Len(COUNTRIES) - 1)
         /\ response.input_features.stem_field_encoded
               = Rank(response.request.stem_field, Range(STEM_FIELDS))
         /\ response.input_features.stem_field_encoded \in 0..(Len(STEM_FIELDS) - 1)
         /\ response.request.country = "United States"
               => response.input_features.country_encoded = 10
         /\ response.request.stem_field = "Computer Science"
               => response.input_features.stem_field_encoded = 1
    /\ (response.op = "predict" /\ response.raised = "") =>
         /\ response.input_features.country_encoded
               = Rank(response.request.country, Range(prediction_service.countries))
         /\ response.input_features.country_encoded
               \in 0..(Len(prediction_service.countries) - 1)
         /\ response.input_features.stem_field_encoded
               = Rank(response.request.stem_field, Range(prediction_service.stem_fields))
    /\ (apiPhase = "ready" /\ response.op = "none") =>
         /\ LabelEncoderFit(Reverse(COUNTRIES)) = country_encoder
         /\ \A q \in Orders(STEM_FIELDS) : LabelEncoderFit(q) = field_encoder

\* C5 witness: /predict encoded "United States" as 10 and "Computer Science"
\* as 1
C5_Witness ==
    /\ response.op = "/predict" /\ response.status = 200
    /\ response.request.country = "United States"
    /\ response.request.stem_field = "Computer Science"
    /\ response.input_features.country_encoded = 10
    /\ response.input_features.stem_field_encoded = 1

\* C6: when the artifact cannot be loaded (missing, or unreadable), /health
\* answers "degraded" and the process neither holds nor serves a regressor
\* fitted on random data.
C6_NoSubstituteModel ==
    (modelFile \in {"missing", "corrupt"} /\ apiPhase /= "init") =>
        /\ model.origin /= "fallback"
        /\ response.op = "/health" => response.health.status = "degraded"
        /\ ~(response.op = "/predict" /\ response.status = 200)

C8_NoUnknownLabel ==
    /\ response.cause \notin {"country_encoder.transform:ValueError:unseen label",
                              "field_encoder.transform:ValueError:unseen label"}
    /\ country_encoder.set => Range(country_encoder.classes_) = Range(supported_countries)
    /\ field_encoder.set => Range(field_encoder.classes_) = Range(supported_fields)
    /\ svcPhase = "constructed" =>
         /\ Range(prediction_service.country_encoder.classes_)
               = Range(prediction_service.countries)
         /\ Range(prediction_service.field_encoder.classes_)
               = Range(prediction_service.stem_fields)

\* C8 witness: /predict validated "Brazil", which prediction.py does not
\* support, and both encoders encoded the request
C8_Witness ==
    /\ response.op = "/predict"
    /\ response.request.country = "Brazil"
    /\ Len(response.calls) >= 2
    /\ response.input_features.country_encoded = 1

\* C9: in /predict a failure of the regressor call is answered 500
\* "Prediction Failed", never 400 or 422, and a request that fails
\* validation is never answered 500.
C9_ErrorClasses ==
    response.op = "/predict" =>
        /\ C3_Invalid(response.request, C3_ApiCountries, C3_Fields)
              => response.status \in {400, 422}
        /\ (/\ ~C3_Invalid(response.request, C3_ApiCountries, C3_Fields)
            /\ apiPhase = "ready"
            /\ model.type = "Incompatible")
              => /\ response.status = 500
                 /\ response.error = "Prediction Failed"
                 /\ response.calls[Len(response.calls)] = "model.predict"

\* C9 witness: the regressor raised and /predict answered 500
C9_Witness ==
    /\ response.op = "/predict"
    /\ response.cause = "model.predict:ValueError:predict"
    /\ response.status = 500
    /\ response.error = "Prediction Failed"

\* C10: once startup has completed no step changes the model, the scaler,
\* the encoders or the supported lists of the API process, and no step
\* changes an attribute of the constructed service.
C10_SharedStateFrozen ==
    [][/\ apiPhase = "ready" => UNCHANGED apiGlobals
       /\ svcPhase = "constructed" => UNCHANGED prediction_service]_vars

\* C10 witness: /predict answered a prediction from the fallback regressor
\* after startup
C10_Witness ==
    /\ apiPhase = "ready"
    /\ model.origin = "fallback"
    /\ response.op = "/predict" /\ response.status = 200


\* a caller holds the answer to its request
Answered(c) == clients[c].phase = "answered"

\* C11: whatever the order in which concurrent /predict requests arrive, are
\* handled and are read, two answers held at the same time to equal requests
\* are equal in every field, so an answer is the one the request gets when it
\* is the only request the process has handled
C11_RequestsIndependent ==
    \A c1 \in Clients : \A c2 \in Clients :
        (Answered(c1) /\ Answered(c2) /\ clients[c1].request = clients[c2].request)
            => clients[c1].outcome = clients[c2].outcome

\* two callers hold 200 answers to equal requests served by the fallback model
C11_Witness ==
    /\ model.origin = "fallback"
    /\ \E c1 \in Clients : \E c2 \in Clients :
           /\ c1 /= c2
           /\ Answered(c1) /\ Answered(c2)
           /\ clients[c1].request = clients[c2].request
           /\ clients[c1].outcome.status = 200
           /\ clients[c1].outcome.predicted_graduation_rate \notin {0, 10000}


\* the names of `universe` that the validator `errorsOf` lets through
Accepted(universe, errorsOf(_)) == {n \in universe : errorsOf(n) = {}}

\* the answer lists exactly the names of `accepted`, each once, and counts them
ListsExactly(accepted) ==
    /\ Range(response.listing) = accepted
    /\ Len(response.listing) = Cardinality(accepted)
    /\ response.total_count = Cardinality(accepted)

\* every name listed is one the fitted encoder gives a code
AllEncoded(enc) ==
    enc.set => \A i \in 1..Len(response.listing) :
                   LabelEncoderTransform(enc, response.listing[i]).raised = ""

\* C12: the list /countries returns is exactly the set of country names that
\* the validation of /predict accepts, total_count is its size, 11, and the
\* country encoder that startup fitted gives every listed name a code; the
\* same for /stem-fields, the field names, 4 and the field encoder
C12_ListsMatchValidation ==
    /\ response.op = "/countries" =>
           /\ ListsExactly(Accepted(CountryNames, validate_country))
           /\ response.total_count = 11
           /\ \A i \in 1..Len(response.listing) : InList(response.listing[i], COUNTRIES)
           /\ AllEncoded(country_encoder)
    /\ response.op = "/stem-fields" =>
           /\ ListsExactly(Accepted(FieldNames, validate_stem_field))
           /\ response.total_count = 4
           /\ \A i \in 1..Len(response.listing) : InList(response.listing[i], STEM_FIELDS)
           /\ AllEncoded(field_encoder)

\* /countries has answered a process whose startup fitted the encoders
C12_Witness ==
    /\ response.op = "/countries"
    /\ response.total_count = 11
    /\ country_encoder.set
    /\ LabelEncoderTransform(country_encoder, response.listing[11]).code = 10


\* the pipeline that produced the response: the API's globals or the service
ViaService == response.op = "predict"

UsedCountryEncoder ==
    IF ViaService THEN prediction_service.country_encoder ELSE country_encoder

UsedFieldEncoder ==
    IF ViaService THEN prediction_service.field_encoder ELSE field_encoder

UsedScaler == IF ViaService THEN prediction_service.scaler ELSE scaler

\* C13: for every valid request, in the endpoint and in the service, the
\* vector handed to the scaler has exactly five elements, in the order year,
\* female enrollment, gender gap index, country code, field code
C13_FeatureOrder ==
    Predicted =>
        /\ Len(response.features) = 5
        /\ response.features[1] = 100 * response.request.year
        /\ response.features[2] = response.request.female_enrollment_percent
        /\ response.features[3] = response.request.gender_gap_index
        /\ response.features[4] =
               100 * IndexOf(response.request.country, UsedCountryEncoder.classes_)
        /\ response.features[5] =
               100 * IndexOf(response.request.stem_field, UsedFieldEncoder.classes_)

\* the service has predicted for a request whose two codes differ
C13_Witness ==
    /\ Predicted /\ ViaService
    /\ response.request.country = "Canada"
    /\ response.request.stem_field = "Mathematics"
    /\ response.features[4] = 100
    /\ response.features[5] = 300

\* mean = [2018.0, 50.0, 0.7, 5.0, 1.5], in hundredths
C14_Mean == <<201800, 5000, 70, 500, 150>>

\* scale = [5.0, 15.0, 0.15, 3.0, 1.2], in hundredths
C14_Scale == <<500, 1500, 15, 300, 120>>

\* C14: every element of the vector passed to the regressor is
\* (v[i] - mean[i]) / scale[i] with the fixed means and scales, and the
\* scaler holds exactly these constants in the API and in the service once
\* it is set, whatever requests have been served
C14_ScalingFormula ==
    /\ Predicted =>
          /\ Len(response.scaled) = 5
          /\ \A i \in 1..5 :
                /\ ~response.scaled[i].nan
                /\ response.scaled[i].den > 0
                /\ response.scaled[i].num * C14_Scale[i] =
                       (response.features[i] - C14_Mean[i]) * response.scaled[i].den
    /\ scaler.set => (scaler.mean_ = C14_Mean /\ scaler.scale_ = C14_Scale)
    /\ prediction_service.scaler.set =>
          /\ prediction_service.scaler.mean_ = C14_Mean
          /\ prediction_service.scaler.scale_ = C14_Scale

\* the endpoint has scaled the vector of a request: (2025 - 2018) / 5 = 7/5
C14_Witness ==
    /\ Predicted /\ ~ViaService
    /\ response.request.year = 2025
    /\ response.scaled[1] = [nan |-> FALSE, num |-> 7, den |-> 5]
    /\ prediction_service.scaler.set

\* C15: whenever a prediction can be computed, in the API or in the service,
\* each of the five scale constants is different from zero
C15_ScaleNonZero ==
    /\ scaler.set =>
          (Len(scaler.scale_) = 5 /\ \A i \in 1..5 : scaler.scale_[i] /= 0)
    /\ prediction_service.scaler.set =>
          /\ Len(prediction_service.scaler.scale_) = 5
          /\ \A i \in 1..5 : prediction_service.scaler.scale_[i] /= 0
    /\ Predicted => (UsedScaler.set /\ \A i \in 1..5 : UsedScaler.scale_[i] /= 0)

\* a prediction has been computed with the scaler that startup set
C15_Witness ==
    /\ Predicted /\ ~ViaService
    /\ scaler.set
    /\ response.calls[3] = "scaler.transform"


\* the checks of validate_input, in the order the claim gives them
C16_Order ==
    <<"year", "female_enrollment_percent", "gender_gap_index", "country", "stem_field">>

\* check number k fails on request r: bounds inclusive, in hundredths for the
\* enrollment (0..100) and the gender gap index (0..1)
C16_Fails(k, r) ==
    CASE k = 1 -> ~(2000 <= r.year /\ r.year <= 2030)
      [] k = 2 -> ~(0 <= r.female_enrollment_percent
                    /\ r.female_enrollment_percent <= 10000)
      [] k = 3 -> ~(0 <= r.gender_gap_index /\ r.gender_gap_index <= 100)
      [] k = 4 -> r.country \notin Range(prediction_service.countries)
      [] k = 5 -> r.stem_field \notin Range(prediction_service.stem_fields)

\* C16: validate_input returns (True, "") exactly when no check fails, and
\* otherwise (False, message) with the one message of the first failing check
\* in the order year, enrollment, gender gap index, country, field
C16_FirstFailure ==
    response.op = "validate_input" =>
        LET r == response.request
            failing == {k \in 1..5 : C16_Fails(k, r)}
        IN  /\ response.is_valid <=> failing = {}
            /\ response.is_valid => response.errors = {}
            /\ ~response.is_valid =>
                  /\ Cardinality(response.errors) = 1
                  /\ \A e \in response.errors :
                        \E k \in failing :
                            /\ e.loc = C16_Order[k]
                            /\ \A j \in failing : k <= j
                            /\ k = 4 => (e.named = r.country
                                         /\ e.listed = prediction_service.countries)
                            /\ k = 5 => (e.named = r.stem_field
                                         /\ e.listed = prediction_service.stem_fields)

\* validate_input has answered a request whose enrollment, country and field
\* are all wrong: the enrollment message alone comes back
C16_Witness ==
    /\ response.op = "validate_input"
    /\ response.request.year = 2025
    /\ response.request.female_enrollment_percent = 10001
    /\ response.request.country = "United States"
    /\ response.request.stem_field = "Physics"
    /\ ~response.is_valid
    /\ \A e \in response.errors : e.loc = "female_enrollment_percent"

\* C17: a successful /predict response echoes the request's year, enrollment,
\* gender gap index, country (as country_name) and field (as stem_field_name)
\* unchanged, carries the two codes derived from them, and country_rank and
\* field_rank are the codes plus 1
C17_EchoAndRanks ==
    (response.op = "/predict" /\ response.status = 200) =>
        LET r == response.request
            f == response.input_features
        IN  /\ f.year = r.year
            /\ f.female_enrollment_percent = r.female_enrollment_percent
            /\ f.gender_gap_index = r.gender_gap_index
            /\ f.country_name = r.country
            /\ f.stem_field_name = r.stem_field
            /\ f.country_encoded = IndexOf(r.country, country_encoder.classes_)
            /\ f.stem_field_encoded = IndexOf(r.stem_field, field_encoder.classes_)
            /\ response.country_rank = f.country_encoded + 1
            /\ response.field_rank = f.stem_field_encoded + 1

\* /predict has answered 200 for the United States and Computer Science
C17_Witness ==
    /\ response.op = "/predict" /\ response.status = 200
    /\ response.input_features.country_name = "United States"
    /\ response.input_features.stem_field_name = "Computer Science"
    /\ response.country_rank = 11
    /\ response.field_rank = 2


\* both pipelines are up: startup has run and the service is constructed
BothPipelines == apiPhase = "ready" /\ svcPhase = "constructed"

\* the endpoint and the service both accept the country and the field
BothAccept(c, f) ==
    /\ validate_country(c) = {} /\ InList(c, prediction_service.countries)
    /\ validate_stem_field(f) = {} /\ InList(f, prediction_service.stem_fields)

\* C18: for every request that the endpoint and the service both accept the
\* two pipelines derive the same country code and field code and hand the
\* same scaled vector to the regressor, and the two accept the same set of
\* country names
C18_PipelinesAgree ==
    BothPipelines =>
        /\ Range(COUNTRIES) = Range(prediction_service.countries)
        /\ {c \in CountryNames : validate_country(c) = {}}
               = {c \in CountryNames : InList(c, prediction_service.countries)}
        /\ \A c \in CountryNames : \A f \in FieldNames :
               BothAccept(c, f) =>
                   LET ca == LabelEncoderTransform(country_encoder, c).code
                       cs == LabelEncoderTransform(prediction_service.country_encoder, c).code
                       fa == LabelEncoderTransform(field_encoder, f).code
                       fs == LabelEncoderTransform(prediction_service.field_encoder, f).code
                   IN  /\ ca = cs
                       /\ fa = fs
                       /\ ScalerTransform(scaler, Features(2025, 5000, 50, ca, fa))
                              = ScalerTransform(prediction_service.scaler,
                                                Features(2025, 5000, 50, cs, fs))

\* one of the four globals of the API is unset
AnyUnset == ~model.loaded \/ ~scaler.set \/ ~country_encoder.set \/ ~field_encoder.set

\* C19: /predict answers 200 with a prediction only when
\* load_model_and_encoders has completed and the model, the scaler and the
\* two encoders are set; a request that reaches the handler while one of
\* them is unset is answered 500 and carries no prediction (a request that
\* fails validation never reaches the handler and is answered 422)
C19_NoPredictionUnlessLoaded ==
    response.op = "/predict" =>
        /\ response.status = 200 => (apiPhase = "ready" /\ ~AnyUnset)
        /\ AnyUnset =>
              /\ response.predicted_graduation_rate = -1
              /\ response.features = <<>>
              /\ PredictionInputErrors(response.request) = {} => response.status = 500
              /\ PredictionInputErrors(response.request) /= {} => response.status = 422

\* a valid request was handled before startup set the globals: 500, raised
\* at the first use of an encoder
C19_Witness ==
    /\ response.op = "/predict"
    /\ AnyUnset
    /\ PredictionInputErrors(response.request) = {}
    /\ response.status = 500
    /\ response.calls = <<"country_encoder.transform">>

\* the service object holds its model, scaler and encoders
ServiceAllSet ==
    /\ prediction_service.model.loaded
    /\ prediction_service.scaler.set
    /\ prediction_service.country_encoder.set
    /\ prediction_service.field_encoder.set

\* C20: constructing the service with a missing or unloadable model file
\* raises (FileNotFoundError when missing), fits no fallback and yields no
\* instance; every instance obtained has model, scaler and both encoders set,
\* and its health_check reports model_loaded and encoders_ready true
C20_AllOrNothing ==
    /\ (modelFile \in {"missing", "corrupt"} /\ svcPhase /= "none") =>
           (svcPhase = "failed" /\ prediction_service = NoService)
    /\ (response.op = "STEMPredictionService" /\ modelFile = "missing") =>
           response.raised = "FileNotFoundError"
    /\ response.op = "STEMPredictionService" =>
           (response.raised /= "" /\ svcPhase = "failed")
    /\ svcPhase /= "constructed" => prediction_service = NoService
    /\ svcPhase = "constructed" =>
           (ServiceAllSet /\ prediction_service.model.origin /= "fallback")
    /\ response.op = "health_check" =>
           (response.health.model_loaded /\ response.health.encoders_ready)

\* health_check has answered on an instance whose regressor cannot predict
C20_Witness ==
    /\ response.op = "health_check"
    /\ modelFile = "incompatible"
    /\ response.health.model_loaded
    /\ response.health.encoders_ready

=============================================================================
